---- MODULE Spec2Model ----
(***************************************************************************)
(* Model of controllers/kmsissuer_controller.go: the KMSIssuer reconciler. *)
(*                                                                         *)
(* Time is counted in hours since the epoch of the model.  A Go pointer    *)
(* that may be nil is either Nil or the value it points to.  A *big.Int is *)
(* a record [addr, val]: the address of the allocation and the number.     *)
(***************************************************************************)
EXTENDS Integers, Sequences, FiniteSets, TLC

\* ------------------------------------------------------------------ bounds
MaxTime == 3
MaxConcTime == 1
MaxDur == 4

\* --------------------------------------------------------------- constants
Nil == "nil"

DefaultCertDuration == 24 * 365 * 3

DefaultCertRenewalRatio == 2 \div 3

Keys == {"ns/a", "ns/b"}

VARIABLES store, now, pc, fetched, issuer, certInput, desiredCert, issue,
          message, result, err, calls, events, choices, prev, pure

vars == <<store, now, pc, fetched, issuer, certInput, desiredCert, issue,
          message, result, err, calls, events, choices, prev, pure>>

\* ------------------------------------------------------------ certificates
NoSerial == <<>>

NoTBS == [SerialNumber |-> NoSerial, NotBefore |-> 0, NotAfter |-> 0]

\* Status.Certificate of a resource that has no certificate yet.
EmptyBytes == [len |-> 0, pem |-> FALSE, Type |-> "", der |-> FALSE, tbs |-> NoTBS]

\* Bytes that are not a PEM block.
GarbageBytes == [len |-> 1, pem |-> FALSE, Type |-> "", der |-> FALSE, tbs |-> NoTBS]

\* A PEM block whose payload is not a DER certificate.
BadDERBytes == [len |-> 1, pem |-> TRUE, Type |-> "CERTIFICATE", der |-> FALSE, tbs |-> NoTBS]

NoCert == [SerialNumber |-> [addr |-> 0, val |-> NoSerial], NotBefore |-> 0,
           NotAfter |-> 0, Raw |-> [der |-> FALSE, tbs |-> NoTBS]]

NewAddr(heap) == IF heap = {} THEN 1 ELSE 1 + CHOOSE a \in heap : \A b \in heap : b <= a

\* pem.EncodeToMemory(&pem.Block{Type: typ, Bytes: raw})
EncodeToMemory(typ, raw) ==
    [len |-> 1, pem |-> TRUE, Type |-> typ, der |-> raw.der, tbs |-> raw.tbs]

\* pem.Decode: the block, or Nil when the bytes hold no PEM block.
PemDecode(bytes) ==
    IF bytes.len > 0 /\ bytes.pem
    THEN [ok |-> TRUE, Type |-> bytes.Type, Bytes |-> [der |-> bytes.der, tbs |-> bytes.tbs]]
    ELSE [ok |-> FALSE, Type |-> "", Bytes |-> [der |-> FALSE, tbs |-> NoTBS]]

\* x509.ParseCertificate: allocates the certificate and its serial number.
X509ParseCertificate(der, heap) ==
    IF der.der
    THEN [err |-> Nil,
          cert |-> [SerialNumber |-> [addr |-> NewAddr(heap), val |-> der.tbs.SerialNumber],
                    NotBefore |-> der.tbs.NotBefore,
                    NotAfter |-> der.tbs.NotAfter,
                    Raw |-> der]]
    ELSE [err |-> "x509: malformed certificate", cert |-> NoCert]

ParseCertificate(cert, heap) ==
    LET block == PemDecode(cert) IN
    IF ~block.ok
    THEN [err |-> "failed to parse certificate PEM", cert |-> NoCert]
    ELSE X509ParseCertificate(block.Bytes, heap)

\* ------------------------------------------------------------- CA engine
\* time.Time.Truncate
Truncate(t, d) == IF d <= 0 THEN t ELSE t - (t % d)

\* kmsca.GenerateCertificateAuthorityCertificate: the deterministic preview.
GenerateCertificateAuthorityCertificate(input, t, heap) ==
    LET notBefore == Truncate(t, input.Rounding)
        notAfter == notBefore + input.Duration
        serial == <<input.KeyID, input.Subject, notBefore, notAfter>>
    IN [SerialNumber |-> [addr |-> NewAddr(heap), val |-> serial],
        NotBefore |-> notBefore,
        NotAfter |-> notAfter,
        Raw |-> [der |-> FALSE, tbs |-> NoTBS]]

\* kmsca.GenerateAndSignCertificateAuthorityCertificate, when signing succeeds.
GenerateAndSignCertificateAuthorityCertificate(input, t, heap) ==
    LET c == GenerateCertificateAuthorityCertificate(input, t, heap)
    IN [c EXCEPT !.Raw = [der |-> TRUE,
                          tbs |-> [SerialNumber |-> c.SerialNumber.val,
                                   NotBefore |-> c.NotBefore,
                                   NotAfter |-> c.NotAfter]]]

\* --------------------------------------------------------- Default Resolver
\* A *metav1.Duration: nil, or a pointer to a Duration.
NilDuration == [nil |-> TRUE, Duration |-> 0]

MetaDuration(d) == [nil |-> FALSE, Duration |-> d]

\* setIssuerDefaultValues that also resets a renewBefore equal to the duration.
setIssuerDefaultValues_resetsEqual(spec) ==
    LET s1 == IF spec.Duration.nil \/ spec.Duration.Duration = 0
              THEN [spec EXCEPT !.Duration = MetaDuration(DefaultCertDuration)]
              ELSE spec
        s2 == IF s1.RenewBefore.nil
              THEN [s1 EXCEPT !.RenewBefore =
                        MetaDuration(s1.Duration.Duration * DefaultCertRenewalRatio)]
              ELSE s1
        s3 == IF s2.RenewBefore.Duration >= s2.Duration.Duration
              THEN [s2 EXCEPT !.RenewBefore =
                        MetaDuration(s2.Duration.Duration * DefaultCertRenewalRatio)]
              ELSE s2
    IN s3

setIssuerDefaultValues(spec) ==
    LET s1 == IF spec.Duration.nil \/ spec.Duration.Duration = 0
              THEN [spec EXCEPT !.Duration = MetaDuration(DefaultCertDuration)]
              ELSE spec
        s2 == IF s1.RenewBefore.nil
              THEN [s1 EXCEPT !.RenewBefore =
                        MetaDuration(s1.Duration.Duration * DefaultCertRenewalRatio)]
              ELSE s1
        s3 == IF s2.RenewBefore.Duration > s2.Duration.Duration
              THEN [s2 EXCEPT !.RenewBefore =
                        MetaDuration(s2.Duration.Duration * DefaultCertRenewalRatio)]
              ELSE s2
    IN s3

\* -------------------------------------------------- Renewal Decision Engine
\* time.Until(t) at the instant t0
Until(t, t0) == t - t0

\* certificateNeedsRenewal with the serial numbers compared by value.
certificateNeedsRenewal_byValue(iss, desired, t0, heap) ==
    IF iss.Status.Certificate.len = 0 THEN TRUE
    ELSE LET parsed == ParseCertificate(iss.Status.Certificate, heap)
             actualCert == parsed.cert
         IN IF parsed.err # Nil THEN TRUE
            ELSE IF Until(actualCert.NotAfter + (-1 * iss.Spec.RenewBefore.Duration), t0) = 0 THEN TRUE
            ELSE IF desired.SerialNumber.val # actualCert.SerialNumber.val THEN TRUE
            ELSE FALSE

\* certificateNeedsRenewal with a parse error taken as "nothing to renew".
certificateNeedsRenewal_parseErrorSkips(iss, desired, t0, heap) ==
    IF iss.Status.Certificate.len = 0 THEN TRUE
    ELSE LET parsed == ParseCertificate(iss.Status.Certificate, heap)
             actualCert == parsed.cert
         IN IF parsed.err # Nil THEN FALSE
            ELSE IF Until(actualCert.NotAfter + (-1 * iss.Spec.RenewBefore.Duration), t0) = 0 THEN TRUE
            ELSE IF desired.SerialNumber.addr # actualCert.SerialNumber.addr THEN TRUE
            ELSE FALSE

\* certificateNeedsRenewal without the test for a certificate not issued yet.
certificateNeedsRenewal_emptySkips(iss, desired, t0, heap) ==
    IF iss.Status.Certificate.len = 0 THEN FALSE
    ELSE LET parsed == ParseCertificate(iss.Status.Certificate, heap)
             actualCert == parsed.cert
         IN IF parsed.err # Nil THEN TRUE
            ELSE IF Until(actualCert.NotAfter + (-1 * iss.Spec.RenewBefore.Duration), t0) = 0 THEN TRUE
            ELSE IF desired.SerialNumber.addr # actualCert.SerialNumber.addr THEN TRUE
            ELSE FALSE

\* The comparison of two *big.Int with != compares the addresses.
certificateNeedsRenewal(iss, desired, t0, heap) ==
    IF iss.Status.Certificate.len = 0 THEN TRUE
    ELSE LET parsed == ParseCertificate(iss.Status.Certificate, heap)
             actualCert == parsed.cert
         IN IF parsed.err # Nil THEN TRUE
            ELSE IF Until(actualCert.NotAfter + (-1 * iss.Spec.RenewBefore.Duration), t0) = 0 THEN TRUE
            ELSE IF desired.SerialNumber.addr # actualCert.SerialNumber.addr THEN TRUE
            ELSE FALSE

\* The certificate input with renewBefore itself as the rounding window.
desiredCertificateAuthorityCertificateInput_roundingIsRenewBefore(iss) ==
    [KeyID |-> iss.Spec.KeyID,
     Subject |-> iss.Spec.CommonName,
     Duration |-> iss.Spec.Duration.Duration,
     Rounding |-> iss.Spec.RenewBefore.Duration]

desiredCertificateAuthorityCertificateInput(iss) ==
    [KeyID |-> iss.Spec.KeyID,
     Subject |-> iss.Spec.CommonName,
     Duration |-> iss.Spec.Duration.Duration,
     Rounding |-> iss.Spec.Duration.Duration - iss.Spec.RenewBefore.Duration]

\* ----------------------------------------------------------- Status Reporter
\* kmsiapi.NewCondition
NewCondition(type, status, reason, msg) ==
    [Type |-> type, Status |-> status, Reason |-> reason, Message |-> msg]

\* KMSIssuerStatus.SetCondition: replace the condition of the same type, or append.
SetCondition(status, cond) ==
    IF \E i \in 1..Len(status.Conditions) : status.Conditions[i].Type = cond.Type
    THEN [status EXCEPT !.Conditions =
              [i \in 1..Len(status.Conditions) |->
                  IF status.Conditions[i].Type = cond.Type THEN cond
                  ELSE status.Conditions[i]]]
    ELSE [status EXCEPT !.Conditions = Append(status.Conditions, cond)]

\* The outcomes of Client.Status().Update: nil, a conflict, another store error.
UpdateOutcomes == {Nil, "conflict", "store error"}

\* Status().Update that does not select the resource by its key.
StatusUpdate_anyKey(k, obj, outcome) ==
    IF outcome = Nil
    THEN [j \in DOMAIN store |-> [store[j] EXCEPT !.Status = obj.Status]]
    ELSE store

\* An update of the whole object in place of the status subresource.
StatusUpdate_wholeObject(k, obj, outcome) ==
    IF outcome = Nil
    THEN [store EXCEPT ![k].Status = obj.Status, ![k].Spec = obj.Spec]
    ELSE store

\* What the store holds for key k after Status().Update(obj) returned outcome:
\* the status subresource replaces the status and nothing else.
StatusUpdate(k, obj, outcome) ==
    IF outcome = Nil
    THEN [store EXCEPT ![k].Status = obj.Status]
    ELSE store

\* ------------------------------------------------------ Reconciliation Driver
\* &kmsiapi.KMSIssuer{}
ZeroIssuer ==
    [Spec |-> [KeyID |-> "", CommonName |-> "", Duration |-> NilDuration,
               RenewBefore |-> NilDuration],
     Status |-> [Certificate |-> EmptyBytes, Conditions |-> <<>>]]

\* ctrl.Result{}
EmptyResult == [RequeueAfter |-> 0]

NoInput == [KeyID |-> "", Subject |-> "", Duration |-> 0, Rounding |-> 0]

\* What the environment did during one invocation: the instants the clock was
\* read at, and the outcomes of the signing call and of the status updates.
NoChoices == [tPreview |-> -1, tDecide |-> -1, tSign |-> -1, tReturn |-> -1,
              get |-> "none", sign |-> "none", persist |-> "none", report |-> "none"]

\* What is remembered of the previous invocation for a key: whether it signed
\* and persisted a certificate with Ready=True, and whether the clock has
\* stood still since it returned.
NoPrev == [issued |-> FALSE, fresh |-> FALSE]

NoPure == [fn |-> "none"]

\* The specs a resource is created with.
IssuerSpecs ==
    { [KeyID |-> "", CommonName |-> "ca.example", Duration |-> MetaDuration(4),
       RenewBefore |-> MetaDuration(1)],
      [KeyID |-> "k1", CommonName |-> "ca.example", Duration |-> MetaDuration(4),
       RenewBefore |-> MetaDuration(1)],
      [KeyID |-> "k1", CommonName |-> "ca.example", Duration |-> NilDuration,
       RenewBefore |-> NilDuration],
      [KeyID |-> "k1", CommonName |-> "ca.example", Duration |-> MetaDuration(2),
       RenewBefore |-> MetaDuration(2)],
      [KeyID |-> "k1", CommonName |-> "ca.example", Duration |-> MetaDuration(2),
       RenewBefore |-> MetaDuration(3)] }

AbsentResource ==
    [exists |-> FALSE, Spec |-> ZeroIssuer.Spec, Status |-> ZeroIssuer.Status]

\* The resources of the store when the controller starts: absent, or created
\* with no status, or carrying certificate bytes that do not parse.
InitResources ==
    { AbsentResource }
    \cup { [exists |-> TRUE, Spec |-> s,
            Status |-> [Certificate |-> c, Conditions |-> <<>>]] :
           s \in IssuerSpecs, c \in {EmptyBytes, GarbageBytes, BadDERBytes} }

\* The reconciler at rest: no invocation in progress for any key.
InitDriver ==
    /\ now = 0
    /\ pc = [k \in Keys |-> "Start"]
    /\ fetched = [k \in Keys |-> ZeroIssuer]
    /\ issuer = [k \in Keys |-> ZeroIssuer]
    /\ certInput = [k \in Keys |-> NoInput]
    /\ desiredCert = [k \in Keys |-> NoCert]
    /\ issue = [k \in Keys |-> Nil]
    /\ message = [k \in Keys |-> ""]
    /\ result = [k \in Keys |-> EmptyResult]
    /\ err = [k \in Keys |-> Nil]
    /\ calls = [k \in Keys |-> <<>>]
    /\ events = [k \in Keys |-> <<>>]
    /\ choices = [k \in Keys |-> NoChoices]
    /\ prev = [k \in Keys |-> NoPrev]

\* One resource, reconciled again and again.
MainKey == "ns/a"

Init ==
    /\ InitDriver
    /\ \E r \in InitResources :
          store = [k \in Keys |-> IF k = MainKey THEN r ELSE AbsentResource]
    /\ pure = NoPure

\* Client.Get fails with an error that is not NotFound.
GetError(k) ==
    /\ pc[k] = "Start"
    /\ pc' = [pc EXCEPT ![k] = "Done"]
    /\ calls' = [calls EXCEPT ![k] = Append(@, "Get")]
    /\ result' = [result EXCEPT ![k] = EmptyResult]
    /\ err' = [err EXCEPT ![k] = "store error"]
    /\ choices' = [choices EXCEPT ![k].tReturn = now, ![k].get = "store error"]
    /\ UNCHANGED <<store, now, fetched, issuer, certInput, desiredCert, issue,
                   message, events, prev, pure>>

\* Client.Get of a resource that is gone, the NotFound error returned as it is.
GetNotFound_returnsError(k) ==
    /\ pc[k] = "Start"
    /\ ~store[k].exists
    /\ pc' = [pc EXCEPT ![k] = "Done"]
    /\ calls' = [calls EXCEPT ![k] = Append(@, "Get")]
    /\ result' = [result EXCEPT ![k] = EmptyResult]
    /\ err' = [err EXCEPT ![k] = "not found"]
    /\ choices' = [choices EXCEPT ![k].tReturn = now, ![k].get = "not found"]
    /\ UNCHANGED <<store, now, fetched, issuer, certInput, desiredCert, issue,
                   message, events, prev, pure>>

\* Client.Get: the resource is gone; client.IgnoreNotFound turns the error into nil.
GetNotFound(k) ==
    /\ pc[k] = "Start"
    /\ ~store[k].exists
    /\ pc' = [pc EXCEPT ![k] = "Done"]
    /\ calls' = [calls EXCEPT ![k] = Append(@, "Get")]
    /\ result' = [result EXCEPT ![k] = EmptyResult]
    /\ err' = [err EXCEPT ![k] = Nil]
    /\ choices' = [choices EXCEPT ![k].tReturn = now, ![k].get = "not found"]
    /\ UNCHANGED <<store, now, fetched, issuer, certInput, desiredCert, issue,
                   message, events, prev, pure>>

\* Client.Get reads the resource of the requested key into issuer.
Get(k) ==
    /\ pc[k] = "Start"
    /\ store[k].exists
    /\ issuer' = [issuer EXCEPT ![k] = [Spec |-> store[k].Spec, Status |-> store[k].Status]]
    /\ fetched' = [fetched EXCEPT ![k] = [Spec |-> store[k].Spec, Status |-> store[k].Status]]
    /\ calls' = [calls EXCEPT ![k] = Append(@, "Get")]
    /\ choices' = [choices EXCEPT ![k].get = Nil]
    /\ pc' = [pc EXCEPT ![k] = "Validate"]
    /\ UNCHANGED <<store, now, certInput, desiredCert, issue, message, result,
                   err, events, prev, pure>>

\* The validation of the key reference fails.
ValidateFail(k) ==
    /\ pc[k] = "Validate"
    /\ issuer[k].Spec.KeyID = ""
    /\ issue' = [issue EXCEPT ![k] = "INVALID KeyId"]
    /\ message' = [message EXCEPT ![k] = "Not a valid key: " \o issuer[k].Spec.KeyID]
    /\ pc' = [pc EXCEPT ![k] = "Failure"]
    /\ UNCHANGED <<store, now, fetched, issuer, certInput, desiredCert, result,
                   err, calls, events, choices, prev, pure>>

\* Preview without the validation of the key reference before it.
Preview_unvalidated(k) ==
    /\ pc[k] = "Validate"
    /\ LET iss == [issuer[k] EXCEPT !.Spec = setIssuerDefaultValues(@)]
           input == desiredCertificateAuthorityCertificateInput(iss)
       IN /\ issuer' = [issuer EXCEPT ![k] = iss]
          /\ certInput' = [certInput EXCEPT ![k] = input]
          /\ desiredCert' = [desiredCert EXCEPT ![k] =
                 GenerateCertificateAuthorityCertificate(input, now, {})]
    /\ calls' = [calls EXCEPT ![k] = Append(@, "Preview")]
    /\ choices' = [choices EXCEPT ![k].tPreview = now]
    /\ pc' = [pc EXCEPT ![k] = "Decide"]
    /\ UNCHANGED <<store, now, fetched, issue, message, result, err, events,
                   prev, pure>>

\* Validation passes: defaults, the certificate input and the preview.
Preview(k) ==
    /\ pc[k] = "Validate"
    /\ issuer[k].Spec.KeyID # ""
    /\ LET iss == [issuer[k] EXCEPT !.Spec = setIssuerDefaultValues(@)]
           input == desiredCertificateAuthorityCertificateInput(iss)
       IN /\ issuer' = [issuer EXCEPT ![k] = iss]
          /\ certInput' = [certInput EXCEPT ![k] = input]
          /\ desiredCert' = [desiredCert EXCEPT ![k] =
                 GenerateCertificateAuthorityCertificate(input, now, {})]
    /\ calls' = [calls EXCEPT ![k] = Append(@, "Preview")]
    /\ choices' = [choices EXCEPT ![k].tPreview = now]
    /\ pc' = [pc EXCEPT ![k] = "Decide"]
    /\ UNCHANGED <<store, now, fetched, issue, message, result, err, events,
                   prev, pure>>

\* if certificateNeedsRenewal(issuer, desiredCert)
Decide(k) ==
    /\ pc[k] = "Decide"
    /\ pc' = [pc EXCEPT ![k] =
           IF certificateNeedsRenewal(issuer[k], desiredCert[k], now,
                                      {desiredCert[k].SerialNumber.addr})
           THEN "Sign" ELSE "Success"]
    /\ choices' = [choices EXCEPT ![k].tDecide = now]
    /\ UNCHANGED <<store, now, fetched, issuer, certInput, desiredCert, issue,
                   message, result, err, calls, events, prev, pure>>

\* GenerateAndSignCertificateAuthorityCertificate returns an error.
SignFail(k) ==
    /\ pc[k] = "Sign"
    /\ calls' = [calls EXCEPT ![k] = Append(@, "Sign")]
    /\ choices' = [choices EXCEPT ![k].tSign = now, ![k].sign = "sign error"]
    /\ issue' = [issue EXCEPT ![k] = "sign error"]
    /\ message' = [message EXCEPT ![k] =
           "Failed to generate the Certificate Authority Certificate"]
    /\ pc' = [pc EXCEPT ![k] = "Failure"]
    /\ UNCHANGED <<store, now, fetched, issuer, certInput, desiredCert, result,
                   err, events, prev, pure>>

\* Signing succeeds; the certificate is PEM-encoded into the working copy.
Sign(k) ==
    /\ pc[k] = "Sign"
    /\ calls' = [calls EXCEPT ![k] = Append(@, "Sign")]
    /\ choices' = [choices EXCEPT ![k].tSign = now, ![k].sign = Nil]
    /\ LET cert == GenerateAndSignCertificateAuthorityCertificate(certInput[k], now,
                       {desiredCert[k].SerialNumber.addr})
       IN issuer' = [issuer EXCEPT ![k].Status.Certificate =
                         EncodeToMemory("CERTIFICATE", cert.Raw)]
    /\ pc' = [pc EXCEPT ![k] = "Persist"]
    /\ UNCHANGED <<store, now, fetched, certInput, desiredCert, issue, message,
                   result, err, events, prev, pure>>

\* Client.Status().Update of the issued certificate.
Persist(k) ==
    /\ pc[k] = "Persist"
    /\ \E outcome \in UpdateOutcomes :
          /\ store' = StatusUpdate(k, issuer[k], outcome)
          /\ choices' = [choices EXCEPT ![k].persist = outcome]
          /\ IF outcome = Nil
             THEN /\ pc' = [pc EXCEPT ![k] = "Success"]
                  /\ UNCHANGED <<issue, message>>
             ELSE /\ pc' = [pc EXCEPT ![k] = "Failure"]
                  /\ issue' = [issue EXCEPT ![k] = outcome]
                  /\ message' = [message EXCEPT ![k] =
                         "Failed to update the issuer with the issued Certificate"]
    /\ calls' = [calls EXCEPT ![k] = Append(@, "StatusUpdate")]
    /\ UNCHANGED <<now, fetched, issuer, certInput, desiredCert, result, err,
                   events, prev, pure>>

\* The success path with the requeue directive taken from NotAfter alone.
manageSuccess_ignoresRenewBefore(k) ==
    /\ pc[k] = "Success"
    /\ result' = [result EXCEPT ![k] =
           [RequeueAfter |-> Until(desiredCert[k].NotAfter, now)]]
    /\ LET reason == "Issued"
           msg == ""
           ready == NewCondition("Ready", "True", reason, msg)
           iss == [issuer[k] EXCEPT !.Status = SetCondition(@, ready)]
       IN /\ events' = [events EXCEPT ![k] =
                 Append(@, [Type |-> "Normal", Reason |-> reason, Message |-> msg])]
          /\ issuer' = [issuer EXCEPT ![k] = iss]
          /\ \E outcome \in UpdateOutcomes :
                /\ store' = StatusUpdate(k, iss, outcome)
                /\ choices' = [choices EXCEPT ![k].report = outcome, ![k].tReturn = now]
                /\ err' = [err EXCEPT ![k] = outcome]
    /\ calls' = [calls EXCEPT ![k] = @ \o <<"Event", "StatusUpdate">>]
    /\ pc' = [pc EXCEPT ![k] = "Done"]
    /\ UNCHANGED <<now, fetched, certInput, desiredCert, issue, message, prev, pure>>

\* The return of the success path: the requeue directive, then manageSuccess.
manageSuccess(k) ==
    /\ pc[k] = "Success"
    /\ result' = [result EXCEPT ![k] =
           [RequeueAfter |-> Until(desiredCert[k].NotAfter
                                     + (-1 * issuer[k].Spec.RenewBefore.Duration), now)]]
    /\ LET reason == "Issued"
           msg == ""
           ready == NewCondition("Ready", "True", reason, msg)
           iss == [issuer[k] EXCEPT !.Status = SetCondition(@, ready)]
       IN /\ events' = [events EXCEPT ![k] =
                 Append(@, [Type |-> "Normal", Reason |-> reason, Message |-> msg])]
          /\ issuer' = [issuer EXCEPT ![k] = iss]
          /\ \E outcome \in UpdateOutcomes :
                /\ store' = StatusUpdate(k, iss, outcome)
                /\ choices' = [choices EXCEPT ![k].report = outcome, ![k].tReturn = now]
                /\ err' = [err EXCEPT ![k] = outcome]
    /\ calls' = [calls EXCEPT ![k] = @ \o <<"Event", "StatusUpdate">>]
    /\ pc' = [pc EXCEPT ![k] = "Done"]
    /\ UNCHANGED <<now, fetched, certInput, desiredCert, issue, message, prev, pure>>

\* The outcomes of the Status().Update of manageFailure.  The object still
\* carries the resourceVersion it was fetched with, so after an update that was
\* rejected as a conflict the next one is rejected too.
RetryOutcomes(k) ==
    IF choices[k].persist = "conflict" THEN UpdateOutcomes \ {Nil} ELSE UpdateOutcomes

\* manageFailure that resets the certificate of the status it reports.
manageFailure_dropsCertificate(k) ==
    /\ pc[k] = "Failure"
    /\ result' = [result EXCEPT ![k] = EmptyResult]
    /\ LET reason == "Failed"
           ready == NewCondition("Ready", "False", reason, message[k])
           iss == [issuer[k] EXCEPT !.Status =
                       SetCondition([@ EXCEPT !.Certificate = EmptyBytes], ready)]
       IN /\ events' = [events EXCEPT ![k] =
                 Append(@, [Type |-> "Warning", Reason |-> reason, Message |-> message[k]])]
          /\ issuer' = [issuer EXCEPT ![k] = iss]
          /\ \E outcome \in RetryOutcomes(k) :
                /\ store' = StatusUpdate(k, iss, outcome)
                /\ choices' = [choices EXCEPT ![k].report = outcome, ![k].tReturn = now]
                /\ err' = [err EXCEPT ![k] = outcome]
    /\ calls' = [calls EXCEPT ![k] = @ \o <<"Event", "StatusUpdate">>]
    /\ pc' = [pc EXCEPT ![k] = "Done"]
    /\ UNCHANGED <<now, fetched, certInput, desiredCert, issue, message, prev, pure>>

\* manageFailure that records its event with the type of the success path.
manageFailure_normalEvent(k) ==
    /\ pc[k] = "Failure"
    /\ result' = [result EXCEPT ![k] = EmptyResult]
    /\ LET reason == "Failed"
           ready == NewCondition("Ready", "False", reason, message[k])
           iss == [issuer[k] EXCEPT !.Status = SetCondition(@, ready)]
       IN /\ events' = [events EXCEPT ![k] =
                 Append(@, [Type |-> "Normal", Reason |-> reason, Message |-> message[k]])]
          /\ issuer' = [issuer EXCEPT ![k] = iss]
          /\ \E outcome \in RetryOutcomes(k) :
                /\ store' = StatusUpdate(k, iss, outcome)
                /\ choices' = [choices EXCEPT ![k].report = outcome, ![k].tReturn = now]
                /\ err' = [err EXCEPT ![k] = outcome]
    /\ calls' = [calls EXCEPT ![k] = @ \o <<"Event", "StatusUpdate">>]
    /\ pc' = [pc EXCEPT ![k] = "Done"]
    /\ UNCHANGED <<now, fetched, certInput, desiredCert, issue, message, prev, pure>>

\* The return of a failure path: ctrl.Result{} and the result of manageFailure.
manageFailure(k) ==
    /\ pc[k] = "Failure"
    /\ result' = [result EXCEPT ![k] = EmptyResult]
    /\ LET reason == "Failed"
           ready == NewCondition("Ready", "False", reason, message[k])
           iss == [issuer[k] EXCEPT !.Status = SetCondition(@, ready)]
       IN /\ events' = [events EXCEPT ![k] =
                 Append(@, [Type |-> "Warning", Reason |-> reason, Message |-> message[k]])]
          /\ issuer' = [issuer EXCEPT ![k] = iss]
          /\ \E outcome \in RetryOutcomes(k) :
                /\ store' = StatusUpdate(k, iss, outcome)
                /\ choices' = [choices EXCEPT ![k].report = outcome, ![k].tReturn = now]
                /\ err' = [err EXCEPT ![k] = outcome]
    /\ calls' = [calls EXCEPT ![k] = @ \o <<"Event", "StatusUpdate">>]
    /\ pc' = [pc EXCEPT ![k] = "Done"]
    /\ UNCHANGED <<now, fetched, certInput, desiredCert, issue, message, prev, pure>>

SignCalled(k) == \E i \in 1..Len(calls[k]) : calls[k][i] = "Sign"

\* Reconcile has returned; the host invokes it again for the same key.
Requeue(k) ==
    /\ pc[k] = "Done"
    /\ prev' = [prev EXCEPT ![k] =
           [issued |-> SignCalled(k) /\ issue[k] = Nil /\ err[k] = Nil,
            fresh |-> choices[k].tReturn = now]]
    /\ pc' = [pc EXCEPT ![k] = "Start"]
    /\ fetched' = [fetched EXCEPT ![k] = ZeroIssuer]
    /\ issuer' = [issuer EXCEPT ![k] = ZeroIssuer]
    /\ certInput' = [certInput EXCEPT ![k] = NoInput]
    /\ desiredCert' = [desiredCert EXCEPT ![k] = NoCert]
    /\ issue' = [issue EXCEPT ![k] = Nil]
    /\ message' = [message EXCEPT ![k] = ""]
    /\ result' = [result EXCEPT ![k] = EmptyResult]
    /\ err' = [err EXCEPT ![k] = Nil]
    /\ calls' = [calls EXCEPT ![k] = <<>>]
    /\ events' = [events EXCEPT ![k] = <<>>]
    /\ choices' = [choices EXCEPT ![k] = NoChoices]
    /\ UNCHANGED <<store, now, pure>>

\* The clock advances, up to the horizon of the specification.
TickTo(horizon) ==
    /\ now < horizon
    /\ now' = now + 1
    /\ prev' = [k \in Keys |-> [prev[k] EXCEPT !.fresh = FALSE]]
    /\ UNCHANGED <<store, pc, fetched, issuer, certInput, desiredCert, issue,
                   message, result, err, calls, events, choices, pure>>

\* One step of Reconcile for key k.
Reconcile(k) ==
    \/ GetError(k)
    \/ GetNotFound(k)
    \/ Get(k)
    \/ ValidateFail(k)
    \/ Preview(k)
    \/ Decide(k)
    \/ SignFail(k)
    \/ Sign(k)
    \/ Persist(k)
    \/ manageSuccess(k)
    \/ manageFailure(k)

Tick == TickTo(MaxTime)

Next ==
    \/ Tick
    \/ Reconcile(MainKey)
    \/ Requeue(MainKey)

Spec == Init /\ [][Next]_vars

\* ------------------------------------------- the host's requeue discipline
\* The host invokes Reconcile again after an error return, and after the
\* deadline of the requeue directive the success path returned; a nil error
\* with ctrl.Result{} schedules nothing.
RequeueLive(k) ==
    /\ \/ err[k] # Nil
       \/ /\ issue[k] = Nil
          /\ choices[k].report = Nil
          /\ now >= choices[k].tReturn + result[k].RequeueAfter
    /\ Requeue(k)

NextLive ==
    \/ Tick
    \/ Reconcile(MainKey)
    \/ RequeueLive(MainKey)

\* An invocation that has started runs to its return, and the host does not
\* forget an invocation it owes.
SpecLive ==
    /\ Init
    /\ [][NextLive]_vars
    /\ WF_vars(Reconcile(MainKey))
    /\ WF_vars(RequeueLive(MainKey))

\* --------------------------------------------- two keys, reconciled at once
\* A certificate the CA engine issued at instant t for the working spec.
IssuedBytes(spec, t) ==
    EncodeToMemory("CERTIFICATE",
        GenerateAndSignCertificateAuthorityCertificate(
            desiredCertificateAuthorityCertificateInput([Spec |-> spec]), t, {}).Raw)

ValidSpec ==
    [KeyID |-> "k1", CommonName |-> "ca.example", Duration |-> MetaDuration(4),
     RenewBefore |-> MetaDuration(1)]

ConcResources ==
    { AbsentResource,
      [exists |-> TRUE, Spec |-> [ValidSpec EXCEPT !.KeyID = ""],
       Status |-> [Certificate |-> EmptyBytes, Conditions |-> <<>>]],
      [exists |-> TRUE, Spec |-> ValidSpec,
       Status |-> [Certificate |-> EmptyBytes, Conditions |-> <<>>]],
      [exists |-> TRUE, Spec |-> ValidSpec,
       Status |-> [Certificate |-> IssuedBytes(ValidSpec, 0),
                   Conditions |-> <<NewCondition("Ready", "True", "Issued", "")>>]],
      [exists |-> TRUE,
       Spec |-> [ValidSpec EXCEPT !.Duration = NilDuration, !.RenewBefore = NilDuration],
       Status |-> [Certificate |-> GarbageBytes, Conditions |-> <<>>]] }

InitConc ==
    /\ InitDriver
    /\ store \in [Keys -> ConcResources]
    /\ pure = NoPure

\* Each key is reconciled once, in its own worker; the steps interleave.
TickConc == TickTo(MaxConcTime)

NextConc ==
    \/ TickConc
    \/ \E k \in Keys : Reconcile(k)

SpecConc == InitConc /\ [][NextConc]_vars

\* ------------------------------------------- the Default Resolver on its own
DurationInputs == {NilDuration} \cup {MetaDuration(d) : d \in (-1)..MaxDur}

DefaultsInputs ==
    { [KeyID |-> "k1", CommonName |-> "ca.example", Duration |-> d, RenewBefore |-> r] :
      d \in DurationInputs, r \in DurationInputs }

NoStore == [k \in Keys |-> AbsentResource]

InitDefaults ==
    /\ InitDriver
    /\ store = NoStore
    /\ \E s \in DefaultsInputs :
          pure = [fn |-> "defaults", in |-> s, once |-> s, out |-> s, applied |-> 0]

\* setIssuerDefaultValues(issuer), on the spec the previous application left.
ApplyDefaults ==
    /\ pure.fn = "defaults"
    /\ pure.applied < 2
    /\ pure' = [pure EXCEPT
           !.out = setIssuerDefaultValues(@),
           !.once = IF pure.applied = 0 THEN setIssuerDefaultValues(pure.out) ELSE @,
           !.applied = @ + 1]
    /\ UNCHANGED <<store, now, pc, fetched, issuer, certInput, desiredCert, issue,
                   message, result, err, calls, events, choices, prev>>

NextDefaults == ApplyDefaults

SpecDefaults == InitDefaults /\ [][NextDefaults]_vars

\* ------------------------------------- the Renewal Decision Engine on its own
\* The working specs: what the Default Resolver leaves of a valid resource.
WorkingSpecs == { setIssuerDefaultValues(s) : s \in { x \in IssuerSpecs : x.KeyID # "" } }

\* The stored certificates: none, bytes that do not parse, or a certificate
\* issued earlier for a working spec or for one with another subject.
StoredCertificates ==
    { EmptyBytes, GarbageBytes, BadDERBytes }
    \cup { IssuedBytes(s, t) : s \in WorkingSpecs, t \in 0..MaxTime }
    \cup { IssuedBytes([s EXCEPT !.CommonName = "old.example"], t) :
           s \in WorkingSpecs, t \in 0..MaxTime }

InitRenewal ==
    /\ InitDriver
    /\ store = NoStore
    /\ \E s \in WorkingSpecs, c \in StoredCertificates, tp \in 0..MaxTime, t0 \in 0..MaxTime :
          /\ tp <= t0
          /\ pure = [fn |-> "renewal",
                     iss |-> [Spec |-> s, Status |-> [Certificate |-> c, Conditions |-> <<>>]],
                     desired |-> GenerateCertificateAuthorityCertificate(
                                     desiredCertificateAuthorityCertificateInput([Spec |-> s]),
                                     tp, {}),
                     t0 |-> t0, out |-> FALSE, done |-> FALSE]

\* certificateNeedsRenewal(issuer, desiredCert), the clock reading t0.
ApplyRenewal ==
    /\ pure.fn = "renewal"
    /\ ~pure.done
    /\ pure' = [pure EXCEPT
           !.out = certificateNeedsRenewal(pure.iss, pure.desired, pure.t0,
                                           {pure.desired.SerialNumber.addr}),
           !.done = TRUE]
    /\ UNCHANGED <<store, now, pc, fetched, issuer, certInput, desiredCert, issue,
                   message, result, err, calls, events, choices, prev>>

NextRenewal == ApplyRenewal

SpecRenewal == InitRenewal /\ [][NextRenewal]_vars

\* ===================================================================== claims
Called(k, name) == \E i \in 1..Len(calls[k]) : calls[k][i] = name

\* The invocation for key k has read its resource from the store.
Found(k) == pc[k] # "Start" /\ ~(pc[k] = "Done" /\ calls[k] = <<"Get">>)

HasReady(status, st, reason, msg) ==
    \E i \in 1..Len(status.Conditions) :
        status.Conditions[i] = NewCondition("Ready", st, reason, msg)

\* The stored certificate parses and is the certificate of the preview, and
\* the instant t is before its renewal boundary.
CurrentAt(iss, desired, t) ==
    LET parsed == ParseCertificate(iss.Status.Certificate, {}) IN
    /\ iss.Status.Certificate.len > 0
    /\ parsed.err = Nil
    /\ parsed.cert.SerialNumber.val = desired.SerialNumber.val
    /\ parsed.cert.NotAfter = desired.NotAfter
    /\ t < parsed.cert.NotAfter - iss.Spec.RenewBefore.Duration

\* C1: a second Reconcile of a key, with no time elapsed since the first one
\* signed and persisted a certificate with Ready=True and with the stored
\* certificate still the one of the preview and before its renewal boundary,
\* calls no signing and leaves the persisted status as it was.
C1_Idempotent ==
    \A k \in Keys :
        ( /\ prev[k].issued
          /\ prev[k].fresh
          /\ choices[k].tDecide # -1
          /\ HasReady(fetched[k].Status, "True", "Issued", "")
          /\ CurrentAt([Spec |-> issuer[k].Spec, Status |-> fetched[k].Status],
                       desiredCert[k], choices[k].tDecide) )
        => /\ pc[k] # "Sign"
           /\ ~Called(k, "Sign")
           /\ store[k].Status = fetched[k].Status

\* C2: a Reconcile that took the failure path because the key reference was
\* invalid or the signing call failed returns a non-nil error.
C2_FailureReturnsError ==
    \A k \in Keys :
        (pc[k] = "Done" /\ issue[k] \in {"INVALID KeyId", "sign error"})
        => err[k] # Nil

\* C3: when the signing call fails, the persisted certificate stays the one
\* that was stored before the invocation, and the only status written is the
\* fetched status with the Ready condition set to False, reason Failed.
C3_SignFailureKeepsCertificate ==
    \A k \in Keys :
        (issue[k] = "sign error")
        => /\ store[k].Status.Certificate = fetched[k].Status.Certificate
           /\ pc[k] = "Failure" => store[k].Status = fetched[k].Status
           /\ pc[k] = "Done" =>
                 IF err[k] = Nil
                 THEN store[k].Status =
                          SetCondition(fetched[k].Status,
                              NewCondition("Ready", "False", "Failed",
                                  "Failed to generate the Certificate Authority Certificate"))
                 ELSE store[k].Status = fetched[k].Status

C3_Witness ==
    \E k \in Keys :
        /\ pc[k] = "Done"
        /\ issue[k] = "sign error"
        /\ err[k] = Nil
        /\ fetched[k].Status.Certificate.der
        /\ HasReady(fetched[k].Status, "True", "Issued", "")
        /\ HasReady(store[k].Status, "False", "Failed",
                    "Failed to generate the Certificate Authority Certificate")

\* C4: for a resource with an empty key reference, Reconcile calls neither the
\* preview nor the signing of the CA engine, leaves the persisted certificate
\* unchanged, reports Ready=False with reason Failed and a message about the
\* invalid key, and returns an empty requeue directive.
C4_EmptyKeyRejected ==
    \A k \in Keys :
        (Found(k) /\ fetched[k].Spec.KeyID = "")
        => /\ ~Called(k, "Preview")
           /\ ~Called(k, "Sign")
           /\ store[k].Status.Certificate = fetched[k].Status.Certificate
           /\ pc[k] \in {"Validate", "Failure", "Done"}
           /\ pc[k] = "Done" =>
                 /\ result[k] = EmptyResult
                 /\ events[k] = << [Type |-> "Warning", Reason |-> "Failed",
                                    Message |-> "Not a valid key: "] >>
                 /\ HasReady(issuer[k].Status, "False", "Failed", "Not a valid key: ")
                 /\ IF err[k] = Nil
                    THEN store[k].Status = issuer[k].Status
                    ELSE store[k].Status = fetched[k].Status

C4_Witness ==
    \E k \in Keys :
        /\ pc[k] = "Done"
        /\ Found(k)
        /\ fetched[k].Spec.KeyID = ""
        /\ err[k] = Nil
        /\ HasReady(store[k].Status, "False", "Failed", "Not a valid key: ")

\* C5: after the Default Resolver has run, duration > 0 and
\* 0 < renewBefore <= duration, whatever the input was.
C5_ResolverRepairs ==
    (pure.fn = "defaults" /\ pure.applied >= 1)
    => /\ ~pure.out.Duration.nil
       /\ ~pure.out.RenewBefore.nil
       /\ pure.out.Duration.Duration > 0
       /\ 0 < pure.out.RenewBefore.Duration
       /\ pure.out.RenewBefore.Duration <= pure.out.Duration.Duration

\* C6: when renewBefore is unset, or greater than the duration, the Default
\* Resolver sets it to two thirds of the duration (3 time units give 2).
C6_TwoThirds ==
    ( /\ pure.fn = "defaults"
      /\ pure.applied = 1
      /\ \/ pure.in.RenewBefore.nil
         \/ pure.in.RenewBefore.Duration > pure.out.Duration.Duration )
    => pure.out.RenewBefore.Duration = (2 * pure.out.Duration.Duration) \div 3

\* The stored certificate of the renewal input parses and carries the serial
\* number of the preview.
RenewalInputMatches ==
    LET parsed == ParseCertificate(pure.iss.Status.Certificate, {}) IN
    /\ pure.iss.Status.Certificate.len > 0
    /\ parsed.err = Nil
    /\ parsed.cert.SerialNumber.val = pure.desired.SerialNumber.val

RenewalBoundary ==
    ParseCertificate(pure.iss.Status.Certificate, {}).cert.NotAfter
        - pure.iss.Spec.RenewBefore.Duration

\* C7: certificateNeedsRenewal returns true at the renewal boundary
\* NotAfter - renewBefore and at every later instant, for a stored certificate
\* that parses and has the serial number of the preview.
C7_RenewFromBoundaryOn ==
    (pure.fn = "renewal" /\ pure.done /\ RenewalInputMatches
        /\ pure.t0 >= RenewalBoundary)
    => pure.out = TRUE

C7_Witness ==
    /\ pure.fn = "renewal"
    /\ pure.done
    /\ RenewalInputMatches
    /\ pure.t0 > RenewalBoundary
    /\ pure.out = TRUE

\* C8: certificateNeedsRenewal returns false for a stored certificate that
\* parses, has the serial number of the preview and is before its renewal
\* boundary.
C8_NoRenewalBeforeBoundary ==
    (pure.fn = "renewal" /\ pure.done /\ RenewalInputMatches
        /\ pure.t0 < RenewalBoundary)
    => pure.out = FALSE

\* The certificate the invocation for key k fetched is absent, or does not
\* parse, or carries another serial number than the preview.
StoredUnusable(k) ==
    LET parsed == ParseCertificate(fetched[k].Status.Certificate, {}) IN
    \/ fetched[k].Status.Certificate.len = 0
    \/ parsed.err # Nil
    \/ parsed.cert.SerialNumber.val # desiredCert[k].SerialNumber.val

ParseErrors == {"failed to parse certificate PEM", "x509: malformed certificate"}

\* C9: when the stored certificate is absent, or does not parse, or has another
\* serial number than the preview, the renewal decision is to renew (the
\* signing is called), and a parse failure is never an error of Reconcile.
C9_UnusableCertificateRenewed ==
    \A k \in Keys :
        /\ (choices[k].tDecide # -1 /\ StoredUnusable(k))
           => /\ pc[k] # "Success" \/ Called(k, "Sign")
              /\ pc[k] = "Done" => Called(k, "Sign")
        /\ issue[k] \notin ParseErrors
        /\ err[k] \notin ParseErrors

C9_Witness ==
    \E k \in Keys :
        /\ pc[k] = "Done"
        /\ fetched[k].Status.Certificate.len > 0
        /\ ParseCertificate(fetched[k].Status.Certificate, {}).err # Nil
        /\ Called(k, "Sign")
        /\ issue[k] = Nil
        /\ err[k] = Nil
        /\ store[k].Status.Certificate.der

\* The status Reconcile persists for a resource when nothing else runs, given
\* the instants it reads the clock at and the outcomes of its calls.
SoloReconcile(res, ch) ==
    LET failed(status, msg) ==
            SetCondition(status, NewCondition("Ready", "False", "Failed", msg))
        issued(status) ==
            SetCondition(status, NewCondition("Ready", "True", "Issued", ""))
        iss == [res EXCEPT !.Spec = setIssuerDefaultValues(@)]
        input == desiredCertificateAuthorityCertificateInput(iss)
        desired == GenerateCertificateAuthorityCertificate(input, ch.tPreview, {})
        withCert == [res.Status EXCEPT !.Certificate =
                        EncodeToMemory("CERTIFICATE",
                            GenerateAndSignCertificateAuthorityCertificate(
                                input, ch.tSign, {desired.SerialNumber.addr}).Raw)]
    IN IF res.Spec.KeyID = ""
       THEN IF ch.report = Nil
            THEN failed(res.Status, "Not a valid key: " \o res.Spec.KeyID)
            ELSE res.Status
       ELSE IF ~certificateNeedsRenewal(iss, desired, ch.tDecide, {desired.SerialNumber.addr})
       THEN IF ch.report = Nil THEN issued(res.Status) ELSE res.Status
       ELSE IF ch.sign # Nil
       THEN IF ch.report = Nil
            THEN failed(res.Status, "Failed to generate the Certificate Authority Certificate")
            ELSE res.Status
       ELSE IF ch.persist # Nil
       THEN IF ch.report = Nil
            THEN failed(withCert, "Failed to update the issuer with the issued Certificate")
            ELSE res.Status
       ELSE IF ch.report = Nil THEN issued(withCert) ELSE withCert

\* A step of the invocation for one key leaves the resource and the working
\* copy of every other key alone, and what it reads is its own resource.
KeysDoNotInterfere ==
    \A k \in Keys :
        (pc'[k] # pc[k])
        => /\ \A j \in Keys \ {k} :
                 /\ store'[j] = store[j]
                 /\ issuer'[j] = issuer[j]
                 /\ fetched'[j] = fetched[j]
                 /\ result'[j] = result[j]
                 /\ err'[j] = err[j]
           /\ (pc'[k] = "Validate")
              => issuer'[k] = [Spec |-> store[k].Spec, Status |-> store[k].Status]

SoloStatusPersisted ==
    \A k \in Keys :
        (pc[k] = "Done" /\ Found(k))
        => store[k].Status = SoloReconcile(fetched[k], choices[k])

\* C10: two invocations for two distinct keys, interleaved in any order, never
\* read or write each other's status, and the status persisted for each key is
\* the one its Reconcile produces running alone.
C10_KeysIsolated == []SoloStatusPersisted /\ [][KeysDoNotInterfere]_vars

C10_Witness ==
    \E k \in Keys : \E j \in Keys \ {k} :
        /\ pc[k] = "Done" /\ pc[j] = "Done"
        /\ choices[k].tPreview = 0 /\ choices[k].tReturn = 1
        /\ choices[j].tPreview = 0 /\ choices[j].tReturn = 1
        /\ err[k] = Nil /\ err[j] = Nil
        /\ store[k].Status # store[j].Status
        /\ HasReady(store[k].Status, "True", "Issued", "")
        /\ HasReady(store[j].Status, "False", "Failed",
                    "Failed to generate the Certificate Authority Certificate")

\* The number of status updates the invocation for key k has attempted.
StatusWrites(k) == Cardinality({ i \in 1..Len(calls[k]) : calls[k][i] = "StatusUpdate" })

\* C11: one invocation of Reconcile writes the status of the resource at most
\* once, and no persisted state holds the certificate of an invocation without
\* the Ready condition of that invocation.
C11_NoPartialCommit ==
    \A k \in Keys :
        /\ StatusWrites(k) <= 1
        /\ (Found(k) /\ choices[k].persist = Nil) => choices[k].report = Nil

\* C12: when the signing succeeds and the status update that persists the new
\* certificate fails, Reconcile returns a non-nil error and the persisted
\* certificate is the one stored before the invocation.
C12_FailedPersistLosesCertificate ==
    \A k \in Keys :
        ( /\ pc[k] = "Done"
          /\ choices[k].sign = Nil
          /\ choices[k].persist \in UpdateOutcomes \ {Nil} )
        => /\ err[k] # Nil
           /\ store[k].Status.Certificate = fetched[k].Status.Certificate

\* The invocation for key k fetched a resource with a key reference, and no
\* signing call and no update of the issued certificate has failed in it.
NothingFailed(k) ==
    /\ choices[k].get = Nil
    /\ fetched[k].Spec.KeyID # ""
    /\ choices[k].sign # "sign error"
    /\ choices[k].persist \in {"none", Nil}

\* desired.NotAfter - renewBefore - now, from the fetched spec, the instant of
\* the preview and the instant of the return.
ExpectedRequeue(k) ==
    LET iss == [Spec |-> setIssuerDefaultValues(fetched[k].Spec)]
        desired == GenerateCertificateAuthorityCertificate(
                       desiredCertificateAuthorityCertificateInput(iss),
                       choices[k].tPreview, {})
    IN desired.NotAfter - iss.Spec.RenewBefore.Duration - choices[k].tReturn

\* C13: an invocation that passes the key validation and in which neither the
\* signing nor the update of the issued certificate fails takes the success
\* path: it reports Ready=True, reason Issued, empty message, and returns the
\* requeue directive desired.NotAfter - renewBefore - now.
C13_SuccessPathReported ==
    \A k \in Keys :
        NothingFailed(k)
        => /\ pc[k] # "Failure"
           /\ issue[k] = Nil
           /\ pc[k] = "Done" =>
                 /\ events[k] = << [Type |-> "Normal", Reason |-> "Issued", Message |-> ""] >>
                 /\ HasReady(issuer[k].Status, "True", "Issued", "")
                 /\ err[k] = Nil => store[k].Status = issuer[k].Status
                 /\ result[k].RequeueAfter = ExpectedRequeue(k)

C13_Witness ==
    \E k \in Keys :
        /\ NothingFailed(k)
        /\ pc[k] = "Done"
        /\ err[k] = Nil
        /\ HasReady(store[k].Status, "True", "Issued", "")
        /\ fetched[k].Spec.RenewBefore.Duration = 1
        /\ result[k].RequeueAfter <= 0

\* C14: when the resource is not found, Reconcile returns a nil error and an
\* empty requeue directive after the Get alone: no status write, no event, no
\* preview and no signing; another Get error is returned to the caller.
C14_NotFoundIsNoOp ==
    \A k \in Keys :
        /\ choices[k].get = "not found"
           => /\ pc[k] = "Done"
              /\ err[k] = Nil
              /\ result[k] = EmptyResult
              /\ calls[k] = <<"Get">>
              /\ events[k] = <<>>
              /\ store[k] = AbsentResource
        /\ choices[k].get = "store error"
           => /\ pc[k] = "Done"
              /\ err[k] = "store error"
              /\ result[k] = EmptyResult
              /\ calls[k] = <<"Get">>
              /\ events[k] = <<>>

C14_Witness ==
    \E k \in Keys :
        /\ choices[k].get = "not found"
        /\ pc[k] = "Done"
        /\ err[k] = Nil
        /\ ~store[k].exists

\* The spec satisfies duration > 0 and 0 < renewBefore <= duration.
ValidTiming(spec) ==
    /\ ~spec.Duration.nil
    /\ ~spec.RenewBefore.nil
    /\ spec.Duration.Duration > 0
    /\ 0 < spec.RenewBefore.Duration
    /\ spec.RenewBefore.Duration <= spec.Duration.Duration

\* C15: the Default Resolver changes nothing of a spec with duration > 0 and
\* 0 < renewBefore <= duration, and applied twice it leaves what it left when
\* applied once.
C15_ResolverIdempotent ==
    (pure.fn = "defaults")
    => /\ (pure.applied >= 1 /\ ValidTiming(pure.in)) => pure.out = pure.in
       /\ pure.applied = 2 => pure.out = pure.once

C15_Witness ==
    /\ pure.fn = "defaults"
    /\ pure.applied = 2
    /\ ValidTiming(pure.in)
    /\ pure.in.RenewBefore.Duration = pure.in.Duration.Duration
    /\ pure.out = pure.in

\* C16: no step of Reconcile changes the persisted Spec of a resource; the
\* defaults live in the working copy alone.
C16_SpecNeverWritten ==
    [][\A k \in Keys : store'[k].Spec = store[k].Spec /\ store'[k].exists = store[k].exists]_vars

C16_Witness ==
    \E k \in Keys :
        /\ pc[k] = "Done"
        /\ choices[k].persist = Nil
        /\ choices[k].report = Nil
        /\ store[k].Spec.RenewBefore.nil
        /\ store[k].Spec.Duration.nil
        /\ ~issuer[k].Spec.RenewBefore.nil
        /\ issuer[k].Spec.Duration.Duration = DefaultCertDuration
        /\ store[k].Status = issuer[k].Status

\* The position of the first call of that name in the invocation for key k.
FirstCall(k, name) ==
    CHOOSE i \in 1..Len(calls[k]) :
        calls[k][i] = name /\ \A j \in 1..(i - 1) : calls[k][j] # name

\* C17: the signing is called at most once in an invocation, after the key
\* validation, the defaults and the preview, and only when the renewal
\* predicate returned true; the preview is requested with the defaulted
\* duration and the rounding window duration - renewBefore.
C17_StepOrder ==
    \A k \in Keys :
        /\ Cardinality({ i \in 1..Len(calls[k]) : calls[k][i] = "Sign" }) <= 1
        /\ Cardinality({ i \in 1..Len(calls[k]) : calls[k][i] = "Preview" }) <= 1
        /\ Called(k, "Preview")
           => /\ calls[k][1] = "Get"
              /\ fetched[k].Spec.KeyID # ""
              /\ ~issuer[k].Spec.Duration.nil
              /\ ~issuer[k].Spec.RenewBefore.nil
              /\ issuer[k].Spec.Duration.Duration # 0
              /\ certInput[k].KeyID = fetched[k].Spec.KeyID
              /\ certInput[k].Duration = issuer[k].Spec.Duration.Duration
              /\ certInput[k].Rounding =
                     issuer[k].Spec.Duration.Duration - issuer[k].Spec.RenewBefore.Duration
        /\ Called(k, "Sign")
           => /\ Called(k, "Preview")
              /\ FirstCall(k, "Preview") < FirstCall(k, "Sign")
              /\ choices[k].tDecide # -1
              /\ choices[k].tPreview <= choices[k].tDecide
              /\ choices[k].tDecide <= choices[k].tSign
              /\ certificateNeedsRenewal(
                     [Spec |-> issuer[k].Spec, Status |-> fetched[k].Status],
                     desiredCert[k], choices[k].tDecide,
                     {desiredCert[k].SerialNumber.addr})
              /\ \A i \in 1..Len(calls[k]) :
                     calls[k][i] \in {"StatusUpdate", "Event"} => FirstCall(k, "Sign") < i
        /\ pc[k] \in {"Sign", "Persist"} => choices[k].tDecide # -1

C17_Witness ==
    \E k \in Keys :
        /\ pc[k] = "Done"
        /\ calls[k] = <<"Get", "Preview", "Sign", "StatusUpdate", "Event", "StatusUpdate">>
        /\ certInput[k].Duration = 4
        /\ certInput[k].Rounding = 3
        /\ err[k] = Nil

\* C18: an invocation that fetched a resource emits exactly one audit event,
\* before the status write of the Status Reporter: a Warning with reason
\* Failed and the failure message, or a Normal event with reason Issued and an
\* empty message; its type and reason match the Ready condition the
\* invocation attempts to persist.
C18_OneEventBeforeReport ==
    \A k \in Keys :
        /\ (Found(k) /\ pc[k] # "Done") => (events[k] = <<>> /\ ~Called(k, "Event"))
        /\ (Found(k) /\ pc[k] = "Done")
           => /\ Len(events[k]) = 1
              /\ Cardinality({ i \in 1..Len(calls[k]) : calls[k][i] = "Event" }) = 1
              /\ Len(calls[k]) >= 2
              /\ calls[k][Len(calls[k]) - 1] = "Event"
              /\ calls[k][Len(calls[k])] = "StatusUpdate"
              /\ IF issue[k] = Nil
                 THEN /\ events[k][1] = [Type |-> "Normal", Reason |-> "Issued", Message |-> ""]
                      /\ HasReady(issuer[k].Status, "True", "Issued", "")
                 ELSE /\ events[k][1] =
                             [Type |-> "Warning", Reason |-> "Failed", Message |-> message[k]]
                      /\ message[k] # ""
                      /\ HasReady(issuer[k].Status, "False", "Failed", message[k])

C18_Witness ==
    \E k \in Keys :
        /\ Found(k)
        /\ pc[k] = "Done"
        /\ issue[k] = "sign error"
        /\ err[k] # Nil
        /\ events[k] = << [Type |-> "Warning", Reason |-> "Failed",
                           Message |-> "Failed to generate the Certificate Authority Certificate"] >>

\* C19: in every persisted status, a Ready condition with status True comes
\* with a certificate that is not empty.
C19_ReadyHasCertificate ==
    \A k \in Keys :
        (\E i \in 1..Len(store[k].Status.Conditions) :
            /\ store[k].Status.Conditions[i].Type = "Ready"
            /\ store[k].Status.Conditions[i].Status = "True")
        => store[k].Status.Certificate.len > 0

C19_Witness ==
    \E k \in Keys :
        /\ HasReady(store[k].Status, "True", "Issued", "")
        /\ store[k].Status.Certificate.len > 0
        /\ pc[k] = "Start"
        /\ prev[k].issued

\* A step in which a call to the store or to the CA engine fails.
FailureStep ==
    \E k \in Keys :
        \/ choices[k].get = "none" /\ choices'[k].get = "store error"
        \/ choices[k].sign = "none" /\ choices'[k].sign = "sign error"
        \/ choices[k].persist = "none" /\ choices'[k].persist \in UpdateOutcomes \ {Nil}
        \/ choices[k].report = "none" /\ choices'[k].report \in UpdateOutcomes \ {Nil}

IssuerHasKey == store[MainKey].exists /\ store[MainKey].Spec.KeyID # ""

IssuedReady ==
    /\ store[MainKey].Status.Certificate.len > 0
    /\ store[MainKey].Status.Certificate.der
    /\ HasReady(store[MainKey].Status, "True", "Issued", "")

\* C20: for a resource with a key reference, invoked again by the host after
\* every error return and every requeue deadline, if from some point on no call
\* to the store or the CA engine fails, then eventually the persisted status
\* holds a certificate together with Ready=True, reason Issued.
C20_EventuallyIssued ==
    IssuerHasKey => ((<>[][~FailureStep]_vars) => <>IssuedReady)
====
